---- MODULE Spec2Model ----
(***************************************************************************)
(* Resume-to-JD matching backend: the batch-matching workflow orchestrator *)
(* (routers/matching.py, batch_match_resumes), the single-match and        *)
(* result-deletion endpoints that share the result store with it, and the  *)
(* two stores (resume_result, workflow_executions) with the unique indexes *)
(* that database.py creates on them.                                       *)
(*                                                                         *)
(* Granularity: one action per database call or per await of a handler.    *)
(* The handlers of different requests interleave at that granularity       *)
(* (sync endpoints run on worker threads, several server processes share   *)
(* one MongoDB).  crud.py is not part of the sources at hand; each crud    *)
(* call is modelled as the single store operation its name and its callers *)
(* describe.                                                               *)
(*                                                                         *)
(* Scores are kept in tenths of a point (85.5 is 855) so that the mock     *)
(* score of matching.py:30 is an integer.  A workflow id "WF-<millis>" is  *)
(* kept as the integer <millis>: the formatting is injective.  An absent   *)
(* string is "None"; an absent ObjectId is 0 and an absent workflow id or  *)
(* time is -1 (TLC compares only values of one kind).                      *)
(***************************************************************************)
EXTENDS Integers, Sequences, FiniteSets, TLC

\* ------------------------------------------------------------------ bounds
\* Last value of the millisecond clock.
MaxClock == 1
\* Longest result list the external scorer returns.
MaxResults == 2

\* ------------------------------------------------------- program constants
FREE_PLAN_RESUME_LIMIT == 100

\* --------------------------------------------------------------- universes
\* The batch-match requests of one behaviour; each runs its handler once.
Runs == {1, 2}
ResumeIds == {"R1", "R2"}
ExistingJds == {"JD-1"}
RequestJds == {"JD-1", "JD-404"}
\* A request may also carry ids of resumes that are not in the store; they
\* only count towards len(resume_ids).  These are the counts tried.
UnknownCounts == {0, 99}
\* Scores (tenths) the external scorer reports, and its processing_time_ms.
Scores == {300, 900}
ProcTimes == {1500}
None == "None"

RECURSIVE SeqsUpTo(_, _)
SeqsUpTo(S, n) ==
    IF n = 0 THEN {<<>>}
    ELSE LET shorter == SeqsUpTo(S, n - 1)
         IN  shorter \cup {Append(s, x) : s \in {t \in shorter : Len(t) = n - 1}, x \in S}

VARIABLES
    now,               \* datetime.utcnow() in epoch milliseconds
    AI_AGENT_ENABLED,  \* config.AI_AGENT_ENABLED
    resumes,           \* ids of the documents of the resume collection
    workflows,         \* documents of the workflow_executions collection
    results,           \* documents of the resume_result collection
    run,               \* per batch request: the handler's locals and position
    single,            \* the single-match handler's locals and position
    inserts,           \* history: per resume, who tried and who managed to insert last
    view               \* the last response of an endpoint of routers/workflow.py

vars == <<now, AI_AGENT_ENABLED, resumes, workflows, results, run, single, inserts, view>>

\* ------------------------------------------------------------ stage lists
Agent(id, status, error) == [agent_id |-> id, status |-> status, error |-> error]

\* A new workflow document starts with hr-comparator pending.
MutInitialAgentsPending ==
    << [agent_id |-> "jd-reader", status |-> "completed", error |-> "None"],
       [agent_id |-> "resume-reader", status |-> "completed", error |-> "None"],
       [agent_id |-> "hr-comparator", status |-> "pending", error |-> "None"] >>

\* matching.py:286-306, the stages of a new workflow document
InitialAgents ==
    << Agent("jd-reader", "completed", None),
       Agent("resume-reader", "completed", None),
       Agent("hr-comparator", "in_progress", None) >>

\* The success path writes the stage list of the new document again.
MutCompletedAgentsStale ==
    << Agent("jd-reader", "completed", None),
       Agent("resume-reader", "completed", None),
       Agent("hr-comparator", "in_progress", None) >>

\* matching.py:396-417, the stages written on the success path
CompletedAgents ==
    << Agent("jd-reader", "completed", None),
       Agent("resume-reader", "completed", None),
       Agent("hr-comparator", "completed", None) >>

\* matching.py:461-481, the stages written by the except handler
FailedAgents(err) ==
    << Agent("jd-reader", "completed", None),
       Agent("resume-reader", "completed", None),
       Agent("hr-comparator", "failed", err) >>

\* ------------------------------------------------------ workflow documents
\* len(resume_ids) of a request: the known ids and the unknown ones
ReqLen(ids, unknown) == Len(ids) + unknown

\* matching.py:273, workflow_id = "WF-" + epoch millis
NewWorkflowId(t) == t

\* matching.py:276-318, workflow_doc
WorkflowDoc(wfid, jd, ids, unknown, t) ==
    [ workflow_id       |-> wfid,
      jd_id             |-> jd,
      status            |-> "in_progress",
      started_at        |-> t,
      completed_at      |-> -1,
      resume_ids        |-> ids,
      unknown_ids       |-> unknown,
      total_resumes     |-> ReqLen(ids, unknown),
      processed_resumes |-> 0,
      agents            |-> InitialAgents,
      progress          |-> [completed_agents |-> 2, total_agents |-> 3, percentage |-> 66],
      metrics           |-> [total_candidates |-> ReqLen(ids, unknown), processing_time_ms |-> 0,
                             match_rate |-> 0, top_matches |-> 0],
      error             |-> None ]

\* The update of the success path leaves the status out.
MutCompletedUpdateNoStatus(t, processed, total, ptime) ==
    [ completed_at      |-> t,
      processed_resumes |-> processed,
      agents            |-> CompletedAgents,
      progress          |-> [completed_agents |-> 3, total_agents |-> 3, percentage |-> 100],
      metrics           |-> [total_candidates |-> total, processing_time_ms |-> ptime,
                             match_rate |-> 100, top_matches |-> processed] ]

\* matching.py:392-429, the update of the success path
CompletedUpdate(t, processed, total, ptime) ==
    [ status            |-> "completed",
      completed_at      |-> t,
      processed_resumes |-> processed,
      agents            |-> CompletedAgents,
      progress          |-> [completed_agents |-> 3, total_agents |-> 3, percentage |-> 100],
      metrics           |-> [total_candidates |-> total, processing_time_ms |-> ptime,
                             match_rate |-> 100, top_matches |-> processed] ]

\* The except handler forgets the stage list.
MutFailedUpdateNoStages(err) ==
    [ status |-> "failed",
      error  |-> err ]

\* matching.py:458-482, the update of the except handler
FailedUpdate(err) ==
    [ status |-> "failed",
      error  |-> err,
      agents |-> FailedAgents(err) ]

\* ------------------------------------------------- workflow record store
\* The index on workflow_id is not unique.
MutWorkflowIndexNotUnique(store, doc) == TRUE

\* database.py:95, unique index on workflow_id
WorkflowIndexAllows(store, doc) ==
    \A w \in store : w.workflow_id # doc.workflow_id

\* crud.update_workflow_status: $set of the given fields on the record with
\* that workflow_id
UpdateWorkflowStatus(store, wfid, upd) ==
    { IF w.workflow_id = wfid
        THEN [k \in DOMAIN w |-> IF k \in DOMAIN upd THEN upd[k] ELSE w[k]]
        ELSE w : w \in store }

\* crud.get_workflow_by_id as a set: the records with that workflow_id
WorkflowsById(store, wfid) == {w \in store : w.workflow_id = wfid}

\* ----------------------------------------------------------- result store
\* result_doc without the workflow_id field.
MutBatchResultDocNoWorkflow(id, item, jd, wfid) ==
    [ id |-> id, resume_id |-> item.resume_id, jd_id |-> jd,
      workflow_id |-> -1, match_score |-> item.match_score ]

\* matching.py:355-368, result_doc of the batch loop (the fields the rest of
\* the system reads)
BatchResultDoc(id, item, jd, wfid) ==
    [ id |-> id, resume_id |-> item.resume_id, jd_id |-> jd,
      workflow_id |-> wfid, match_score |-> item.match_score ]

\* matching.py:30, the mock scorer's match_score (85.5)
MockScore == 855

\* matching.py:205-217, result_doc of the single match: no workflow_id
SingleResultDoc(id, resume, jd) ==
    [ id |-> id, resume_id |-> resume, jd_id |-> jd,
      workflow_id |-> -1, match_score |-> MockScore ]

\* The index on (resume_id, jd_id) is not unique.
MutResultIndexNotUnique(store, doc) == TRUE

\* database.py:73, unique index on (resume_id, jd_id)
ResultIndexAllows(store, doc) ==
    \A m \in store : ~(m.resume_id = doc.resume_id /\ m.jd_id = doc.jd_id)

\* crud.get_result_by_resume_jd: find_one, the id of a matching document
\* or 0 for None
ResultsOfPair(store, resume, jd) ==
    {m \in store : m.resume_id = resume /\ m.jd_id = jd}

LookupOutcomes(store, resume, jd) ==
    IF ResultsOfPair(store, resume, jd) = {} THEN {0}
    ELSE {m.id : m \in ResultsOfPair(store, resume, jd)}

\* crud.delete_result: delete_one by _id
DeleteResultById(store, id) == {m \in store : m.id # id}

\* An ObjectId for a new result document: one that no stored document has and
\* no handler still holds (ObjectIds are never handed out twice; an id that
\* nothing refers to any more is as good as a new one).
UsedIds ==
    ({m.id : m \in results} \cup {run[r].existing : r \in Runs} \cup {single.existing}) \ {0}

FreshId ==
    CHOOSE i \in 1..(Cardinality(UsedIds) + 1) :
        /\ i \notin UsedIds
        /\ \A j \in 1..(i - 1) : j \in UsedIds

\* ------------------------------------------------------------ the scorer
\* What can go wrong in call_ai_agent_batch's try block: the httpx timeout and
\* connect exceptions, a status other than 200, a 200 body response.json()
\* cannot parse, and any other exception of the transport.
ScorerFaults == {"timeout", "connect", "status", "parse", "transport"}

\* matching.py:144-152, str(e) of the exception that reaches the last except
\* clause: the two the try block raises itself, or the transport's own
RaisedInTry(fault) ==
    CASE fault = "status" -> "AI Agent returned error: 500"
      [] fault = "parse"  -> "Failed to parse AI Agent JSON response"
      [] OTHER            -> "transport"

\* The last except clause raises one message for every exception.
MutErrorMsgGeneric(fault) ==
    CASE fault = "timeout" -> "AI Agent timeout - processing took too long"
      [] fault = "connect" -> "Cannot connect to AI Agent - is it running?"
      [] OTHER             -> "AI Agent error"

\* matching.py:154-167, error_msg of the three except clauses
error_msg(fault) ==
    CASE fault = "timeout" -> "AI Agent timeout - processing took too long"
      [] fault = "connect" -> "Cannot connect to AI Agent - is it running?"
      [] OTHER             -> "AI Agent error: " \o RaisedInTry(fault)

\* matching.py:154-167, the reason strings call_ai_agent_batch raises with
ScorerErrors == {error_msg(fault) : fault \in ScorerFaults}

Item(resume, score) == [resume_id |-> resume, match_score |-> score]

\* The mock fallback scores the first resume only.
MutMockResultsFirstOnly(resumes_data) ==
    [i \in 1..(IF Len(resumes_data) > 0 THEN 1 ELSE 0) |-> Item(resumes_data[i], MockScore)]

\* matching.py:98-110, the mock fallback: one result per outbound resume
MockResults(resumes_data) ==
    [i \in 1..Len(resumes_data) |-> Item(resumes_data[i], MockScore)]

\* matching.py:135-143, what the external scorer may send back with a 200:
\* any list of results, for any resume ids
AgentItems == {Item("R1", 900), Item("R2", 300)}
AgentResults == SeqsUpTo(AgentItems, MaxResults)

\* ------------------------------------------------------- handler locals
\* What a handler hands back to its caller: nothing yet, an HTTP error, or
\* the success summary of matching.py:444-454.
NoResponse == [kind |-> "none", code |-> 0, detail |-> None, data |-> <<>>]
ErrorResponse(code, detail) == [kind |-> "error", code |-> code, detail |-> detail, data |-> <<>>]
Summary(wfid, jd, total, processed) ==
    [ kind |-> "ok", code |-> 200, detail |-> None,
      data |-> << [workflow_id |-> wfid, jd_id |-> jd, total_resumes |-> total,
                   processed_resumes |-> processed, status |-> "completed"] >> ]

IdleRun ==
    [ pc |-> "idle", jd_id |-> None, resume_ids |-> <<>>, unknown_ids |-> 0,
      workflow_id |-> -1, resumes_data |-> <<>>, ai_results |-> <<>>,
      processing_time_ms |-> 0, idx |-> 0, existing |-> 0,
      processed_count |-> 0, failed_count |-> 0, log |-> <<>>,
      error |-> None, response |-> NoResponse,
      ai_response |-> "none" ]

IdleSingle == [pc |-> "idle", resume_id |-> None, jd_id |-> None, existing |-> 0]

\* crud.get_all_resumes(db, 0, 1000): the stored resumes, in store order
ResumeOrder == <<"R1", "R2">>
AllResumes(store) == SelectSeq(ResumeOrder, LAMBDA x : x \in store)

\* matching.py:259-263, the resume ids a request resolves to
ResolveIds(ids, unknown, store) ==
    IF ReqLen(ids, unknown) > 0 THEN ids ELSE AllResumes(store)

\* The quota check is off by one.
MutOverLimitOffByOne(n) == n > FREE_PLAN_RESUME_LIMIT + 1

\* matching.py:266, the quota check
OverLimit(n) == n > FREE_PLAN_RESUME_LIMIT

\* resumes_data gets an entry for every id, found or not.
MutFetchResumesKeepsAll(ids, store) == ids

\* matching.py:327-334, resumes_data: the ids whose resume is found
FetchResumes(ids, store) == SelectSeq(ids, LAMBDA x : x \in store)

\* History of create_resume_result calls on a resume's pair: the workflow id
\* (-1 for a single match, -2 for nobody) of the last caller and of the last
\* caller whose document was stored.
NoInsert == [last_attempt |-> -2, last_success |-> -2]
Attempted(h, x, by, ok) ==
    [h EXCEPT ![x] = [last_attempt |-> by,
                      last_success |-> IF ok THEN by ELSE h[x].last_success]]

\* No endpoint of routers/workflow.py has answered yet.
NoView == [op |-> "none"]

\* The stores before the requests of a behaviour arrive: empty, or as an
\* earlier batch run over <<"R1">> left them when it completed within
\* millisecond 0 with a score of 70.0 from the external scorer.
EarlierWorkflows ==
    UpdateWorkflowStatus({WorkflowDoc(NewWorkflowId(0), "JD-1", <<"R1">>, 0, 0)},
                         NewWorkflowId(0), CompletedUpdate(0, 1, 1, 1200))

EarlierResults ==
    {BatchResultDoc(1, Item("R1", 700), "JD-1", NewWorkflowId(0))}

EarlierInserts ==
    Attempted([x \in ResumeIds |-> NoInsert], "R1", NewWorkflowId(0), TRUE)

Init ==
    /\ now = 0
    /\ AI_AGENT_ENABLED \in BOOLEAN
    /\ resumes \in {{"R1", "R2"}, {"R1"}}
    /\ \/ workflows = {} /\ results = {} /\ inserts = [x \in ResumeIds |-> NoInsert]
       \/ workflows = EarlierWorkflows /\ results = EarlierResults /\ inserts = EarlierInserts
    /\ run = [r \in Runs |-> IdleRun]
    /\ single = IdleSingle
    /\ view = NoView

\* ----------------------------------------------------------------- clock
\* Time is advanced while a request is still to arrive; the times of later
\* steps are compared with nothing.
Tick ==
    /\ now < MaxClock
    /\ \E r \in Runs : run[r].pc = "idle"
    /\ now' = now + 1
    /\ UNCHANGED <<AI_AGENT_ENABLED, resumes, workflows, results, run, single, inserts, view>>

\* ------------------------------------------ batch_match_resumes, 253-320
\* matching.py:254-256, the JD is not found: 404, nothing written
StartBatchNoJd(r, jd, ids, unknown) ==
    /\ run[r].pc = "idle"
    /\ jd \notin ExistingJds
    /\ run' = [run EXCEPT ![r].pc = "rejected", ![r].jd_id = jd,
                          ![r].resume_ids = ids, ![r].unknown_ids = unknown,
                          ![r].response = ErrorResponse(404, "Job Description not found")]
    /\ UNCHANGED <<now, AI_AGENT_ENABLED, resumes, workflows, results, single, inserts, view>>

\* matching.py:266-270, too many resumes: 400, nothing written
StartBatchOverLimit(r, jd, ids, unknown) ==
    /\ run[r].pc = "idle"
    /\ jd \in ExistingJds
    /\ OverLimit(ReqLen(ResolveIds(ids, unknown, resumes), unknown))
    /\ run' = [run EXCEPT ![r].pc = "rejected", ![r].jd_id = jd,
                          ![r].resume_ids = ResolveIds(ids, unknown, resumes),
                          ![r].unknown_ids = unknown,
                          ![r].response = ErrorResponse(400, "Maximum resumes allowed per workflow")]
    /\ UNCHANGED <<now, AI_AGENT_ENABLED, resumes, workflows, results, single, inserts, view>>

\* The insert of the record is inside the try block: when the unique index
\* rejects it, the except handler marks the record with that id failed.
MutStartBatchCreateInTry(r, jd, ids, unknown) ==
    /\ run[r].pc = "idle"
    /\ jd \in ExistingJds
    /\ LET rids == ResolveIds(ids, unknown, resumes)
           wfid == NewWorkflowId(now)
           doc  == WorkflowDoc(wfid, jd, rids, unknown, now)
       IN  /\ ~OverLimit(ReqLen(rids, unknown))
           /\ IF WorkflowIndexAllows(workflows, doc)
                THEN /\ workflows' = workflows \cup {doc}
                     /\ run' = [run EXCEPT ![r].pc = "created", ![r].jd_id = jd,
                                           ![r].resume_ids = rids,
                                           ![r].unknown_ids = unknown,
                                           ![r].workflow_id = wfid]
                ELSE /\ workflows' = UpdateWorkflowStatus(workflows, wfid,
                                                          FailedUpdate("DuplicateKeyError"))
                     /\ run' = [run EXCEPT ![r].pc = "collided", ![r].jd_id = jd,
                                           ![r].resume_ids = rids,
                                           ![r].unknown_ids = unknown,
                                           ![r].workflow_id = wfid,
                                           ![r].response = ErrorResponse(500, "DuplicateKeyError")]
    /\ UNCHANGED <<now, AI_AGENT_ENABLED, resumes, results, single, inserts, view>>

\* matching.py:272-320, the request is accepted: the workflow id is taken
\* from the clock and the record is inserted; the insert raises when the
\* unique index on workflow_id rejects it (the handler has no try around it)
StartBatch(r, jd, ids, unknown) ==
    /\ run[r].pc = "idle"
    /\ jd \in ExistingJds
    /\ LET rids == ResolveIds(ids, unknown, resumes)
           wfid == NewWorkflowId(now)
           doc  == WorkflowDoc(wfid, jd, rids, unknown, now)
       IN  /\ ~OverLimit(ReqLen(rids, unknown))
           /\ IF WorkflowIndexAllows(workflows, doc)
                THEN /\ workflows' = workflows \cup {doc}
                     /\ run' = [run EXCEPT ![r].pc = "created", ![r].jd_id = jd,
                                           ![r].resume_ids = rids,
                                           ![r].unknown_ids = unknown,
                                           ![r].workflow_id = wfid]
                ELSE /\ workflows' = workflows
                     /\ run' = [run EXCEPT ![r].pc = "collided", ![r].jd_id = jd,
                                           ![r].resume_ids = rids,
                                           ![r].unknown_ids = unknown,
                                           ![r].workflow_id = wfid,
                                           ![r].response = ErrorResponse(500, "DuplicateKeyError")]
    /\ UNCHANGED <<now, AI_AGENT_ENABLED, resumes, results, single, inserts, view>>

\* ------------------------------------------ batch_match_resumes, 325-342
\* matching.py:327-342, the outbound batch is built and the scorer is called
SendBatch(r) ==
    /\ run[r].pc = "created"
    /\ run' = [run EXCEPT ![r].pc = "awaiting",
                          ![r].resumes_data = FetchResumes(run[r].resume_ids, resumes)]
    /\ UNCHANGED <<now, AI_AGENT_ENABLED, resumes, workflows, results, single, inserts, view>>

\* matching.py:348-352, the locals of the loop over ai_results["results"]
EnterLoop(rec, res, ptime) ==
    [rec EXCEPT !.ai_results = res, !.processing_time_ms = ptime,
                !.processed_count = 0, !.failed_count = 0, !.existing = 0, !.log = <<>>,
                !.idx = 1,
                !.pc = IF Len(res) = 0 THEN "finalize" ELSE "lookup"]

\* matching.py:98-110, the scorer is disabled: the mock results come back
MockReturns(r) ==
    /\ run[r].pc = "awaiting"
    /\ ~AI_AGENT_ENABLED
    /\ run' = [run EXCEPT ![r] = [EnterLoop(run[r], MockResults(run[r].resumes_data), 0)
                                     EXCEPT !.ai_response = "mock"]]
    /\ UNCHANGED <<now, AI_AGENT_ENABLED, resumes, workflows, results, single, inserts, view>>

\* matching.py:135-143, the external scorer answers 200 with a result list
AgentReturns(r, res, ptime) ==
    /\ run[r].pc = "awaiting"
    /\ AI_AGENT_ENABLED
    /\ run' = [run EXCEPT ![r] = [EnterLoop(run[r], res, ptime)
                                     EXCEPT !.ai_response = "results"]]
    /\ UNCHANGED <<now, AI_AGENT_ENABLED, resumes, workflows, results, single, inserts, view>>

\* matching.py:135-143 and 345-352, the external scorer answers 200 with a
\* JSON object that has no "results": response.json() is returned as it is
\* and the handler reads ai_results.get("results", [])
AgentReturnsNoResults(r, ptime) ==
    /\ run[r].pc = "awaiting"
    /\ AI_AGENT_ENABLED
    /\ run' = [run EXCEPT ![r] = [EnterLoop(run[r], <<>>, ptime)
                                     EXCEPT !.ai_response = "no_results"]]
    /\ UNCHANGED <<now, AI_AGENT_ENABLED, resumes, workflows, results, single, inserts, view>>

\* matching.py:456-489, the except handler: the record is marked failed and
\* the request ends with a 500
HandleException(r, err) ==
    /\ workflows' = UpdateWorkflowStatus(workflows, run[r].workflow_id, FailedUpdate(err))
    /\ run' = [run EXCEPT ![r].pc = "raised", ![r].error = err,
                          ![r].response = ErrorResponse(500, "AI Agent error")]

\* matching.py:144-167, call_ai_agent_batch raises error_msg for what went
\* wrong with the call, and the except handler of the request takes it
AgentRaises(r, fault) ==
    /\ run[r].pc = "awaiting"
    /\ AI_AGENT_ENABLED
    /\ workflows' = UpdateWorkflowStatus(workflows, run[r].workflow_id,
                                         FailedUpdate(error_msg(fault)))
    /\ run' = [run EXCEPT ![r].pc = "raised", ![r].error = error_msg(fault),
                          ![r].response = ErrorResponse(500, "AI Agent error"),
                          ![r].ai_response = fault]
    /\ UNCHANGED <<now, AI_AGENT_ENABLED, resumes, results, single, inserts, view>>

\* ------------------------------------------ batch_match_resumes, 352-387
CurrentItem(rec) == rec.ai_results[rec.idx]

\* the for statement moves to the next result, or the loop ends
Advance(rec) ==
    [rec EXCEPT !.idx = rec.idx + 1, !.existing = 0,
                !.pc = IF rec.idx + 1 > Len(rec.ai_results) THEN "finalize" ELSE "lookup"]

\* matching.py:379-381, the item was saved (and the line printed for it)
ItemSaved(rec) ==
    Advance([rec EXCEPT !.processed_count = rec.processed_count + 1,
                        !.log = Append(rec.log, "saved")])

\* The except clause of the item leaves the loop instead of going on.
MutItemFailedBreaks(rec, save_error) ==
    [rec EXCEPT !.failed_count = rec.failed_count + 1,
                !.log = Append(rec.log, save_error),
                !.existing = 0, !.pc = "finalize"]

\* matching.py:382-387, the item raised: counted, printed with the error,
\* and the loop goes on
ItemFailed(rec, save_error) ==
    Advance([rec EXCEPT !.failed_count = rec.failed_count + 1,
                        !.log = Append(rec.log, save_error)])

\* matching.py:371-373, crud.get_result_by_resume_jd
ItemLookup(r) ==
    /\ run[r].pc = "lookup"
    /\ \E found \in LookupOutcomes(results, CurrentItem(run[r]).resume_id, run[r].jd_id) :
          run' = [run EXCEPT ![r].existing = found,
                             ![r].pc = IF found # 0 THEN "delete" ELSE "insert"]
    /\ UNCHANGED <<now, AI_AGENT_ENABLED, resumes, workflows, results, single, inserts, view>>

\* The loop inserts without deleting the document it found.
MutItemDeleteSkipped(r) ==
    /\ run[r].pc = "delete"
    /\ run' = [run EXCEPT ![r].pc = "insert"]
    /\ UNCHANGED <<now, AI_AGENT_ENABLED, resumes, workflows, results, single, inserts, view>>

\* matching.py:375-377, crud.delete_result of the document found
ItemDelete(r) ==
    /\ run[r].pc = "delete"
    /\ results' = DeleteResultById(results, run[r].existing)
    /\ run' = [run EXCEPT ![r].pc = "insert"]
    /\ UNCHANGED <<now, AI_AGENT_ENABLED, resumes, workflows, single, inserts, view>>

\* matching.py:379, crud.create_resume_result; the unique index may reject it
ItemInsert(r) ==
    /\ run[r].pc = "insert"
    /\ LET doc == BatchResultDoc(FreshId, CurrentItem(run[r]), run[r].jd_id, run[r].workflow_id)
       IN  /\ IF ResultIndexAllows(results, doc)
                THEN /\ results' = results \cup {doc}
                     /\ run' = [run EXCEPT ![r] = ItemSaved(run[r])]
                ELSE /\ results' = results
                     /\ run' = [run EXCEPT ![r] = ItemFailed(run[r], "DuplicateKeyError")]
           /\ inserts' = Attempted(inserts, doc.resume_id, run[r].workflow_id,
                                   ResultIndexAllows(results, doc))
    /\ UNCHANGED <<now, AI_AGENT_ENABLED, resumes, workflows, single, view>>

\* matching.py:382-387, one of the three store calls of the item raises
ItemStoreError(r) ==
    /\ run[r].pc \in {"lookup", "delete", "insert"}
    /\ run' = [run EXCEPT ![r] = ItemFailed(run[r], "store error")]
    /\ UNCHANGED <<now, AI_AGENT_ENABLED, resumes, workflows, results, single, inserts, view>>

\* ------------------------------------------ batch_match_resumes, 391-454
\* matching.py:392-429, the record is marked completed
Finalize(r) ==
    /\ run[r].pc = "finalize"
    /\ workflows' = UpdateWorkflowStatus(workflows, run[r].workflow_id,
                       CompletedUpdate(now, run[r].processed_count,
                                       ReqLen(run[r].resume_ids, run[r].unknown_ids),
                                       run[r].processing_time_ms))
    /\ run' = [run EXCEPT ![r].pc = "audit"]
    /\ UNCHANGED <<now, AI_AGENT_ENABLED, resumes, results, single, inserts, view>>

\* matching.py:434-454, the audit log is written and the summary returned
AuditAndReturn(r) ==
    /\ run[r].pc = "audit"
    /\ run' = [run EXCEPT ![r].pc = "returned",
                          ![r].response = Summary(run[r].workflow_id, run[r].jd_id,
                                                  ReqLen(run[r].resume_ids, run[r].unknown_ids),
                                                  run[r].processed_count)]
    /\ UNCHANGED <<now, AI_AGENT_ENABLED, resumes, workflows, results, single, inserts, view>>

\* matching.py:434-442 and 456, crud.create_audit_log raises inside the try
AuditRaises(r) ==
    /\ run[r].pc = "audit"
    /\ HandleException(r, "audit log write failed")
    /\ UNCHANGED <<now, AI_AGENT_ENABLED, resumes, results, single, inserts, view>>

\* --------------------------------------------- match_resume_with_jd, 169
\* matching.py:183-197, both documents exist and the request goes on to
\* match: there is no result yet, or force_reprocess is set
SingleStart(x, jd, force) ==
    /\ single.pc = "idle"
    /\ x \in resumes
    /\ jd \in ExistingJds
    /\ \E found \in LookupOutcomes(results, x, jd) :
          /\ ~(found # 0 /\ ~force)
          /\ single' = [pc |-> IF found # 0 THEN "delete" ELSE "insert",
                        resume_id |-> x, jd_id |-> jd, existing |-> found]
    /\ UNCHANGED <<now, AI_AGENT_ENABLED, resumes, workflows, results, run, inserts, view>>

\* matching.py:220-221, crud.delete_result of the document found
SingleDelete ==
    /\ single.pc = "delete"
    /\ results' = DeleteResultById(results, single.existing)
    /\ single' = [single EXCEPT !.pc = "insert"]
    /\ UNCHANGED <<now, AI_AGENT_ENABLED, resumes, workflows, run, inserts, view>>

\* matching.py:223, crud.create_resume_result; a rejected insert ends the
\* request with the store's error
SingleInsert ==
    /\ single.pc = "insert"
    /\ LET doc == SingleResultDoc(FreshId, single.resume_id, single.jd_id)
       IN  /\ results' = IF ResultIndexAllows(results, doc) THEN results \cup {doc} ELSE results
           /\ inserts' = Attempted(inserts, doc.resume_id, -1, ResultIndexAllows(results, doc))
    /\ single' = IdleSingle
    /\ UNCHANGED <<now, AI_AGENT_ENABLED, resumes, workflows, run, view>>

\* ----------------------------------------------------- delete_result, 714
\* matching.py:721, crud.delete_result by id
DeleteResult(id) ==
    /\ id \in {m.id : m \in results}
    /\ results' = DeleteResultById(results, id)
    /\ UNCHANGED <<now, AI_AGENT_ENABLED, resumes, workflows, run, single, inserts, view>>

\* ------------------------------------------------- routers/workflow.py
\* The values the endpoints are called with: the jd_id query parameter
\* (absent, the JD of the runs, another JD), the four workflow statuses, a
\* status filter (absent or one status) and the workflow ids of the first two
\* milliseconds.
JdParams == {None, "JD-1", "JD-404"}
Statuses == {"pending", "in_progress", "completed", "failed"}
StatusFilters == {None, "completed"}
WorkflowIdParams == {NewWorkflowId(0), NewWorkflowId(1)}

\* The subject is looked for among the records of the requested JD.
MutRecentWorkflowOfJd(jd_id, store) ==
    LET mine == {w \in store : jd_id = None \/ w.jd_id = jd_id}
    IN  IF mine = {} THEN {}
        ELSE {CHOOSE w \in mine : \A v \in mine : v.started_at <= w.started_at}

\* workflow.py:30-33, find_one({}, sort=[("started_at", -1)]) as a set: the
\* record started last, whatever jd_id the caller passed
recent_workflow(jd_id, store) ==
    IF store = {} THEN {}
    ELSE {CHOOSE w \in store : \A v \in store : v.started_at <= w.started_at}

\* dict.get(key, default)
Get(d, key, default) == IF key \in DOMAIN d THEN d[key] ELSE default

\* workflow.py:52-55 and 99-102, the results of the subject's resume ids and JD
MatchesInScope(w, res) ==
    {m \in res : /\ m.jd_id = Get(w, "jd_id", None)
                 /\ \E i \in 1..Len(Get(w, "resume_ids", <<>>)) :
                       w.resume_ids[i] = m.resume_id}

\* workflow.py:158-178, the display status of hr-comparator
hr_comparator_status(workflow_status, total_matches, total_resumes, total_jds) ==
    IF total_matches > 0 THEN "completed"
    ELSE IF workflow_status = "in_progress" THEN "in-progress"
    ELSE IF workflow_status = "pending" /\ total_resumes > 0 /\ total_jds > 0 THEN "pending"
    ELSE "idle"

\* A description text and the count formatted into it (0 when it has none)
Text(text, n) == [text |-> text, n |-> n]

\* workflow.py:121-197, one entry of the snapshot's agents list
StageView(id, status, description) ==
    [id |-> id, status |-> status, description |-> description]

\* workflow.py:256-260, the agents list of the except branch
IdleStages ==
    << StageView("jd-reader", "idle", Text("No data yet", 0)),
       StageView("resume-reader", "idle", Text("No data yet", 0)),
       StageView("hr-comparator", "idle", Text("No data yet", 0)) >>

\* workflow.py:159-178, the description of hr-comparator
hr_comparator_description(workflow_status, total_matches, total_resumes, total_jds) ==
    IF total_matches > 0
    THEN Text("AI-powered matching: Compared and scored candidate(s)", total_matches)
    ELSE IF workflow_status = "in_progress"
    THEN Text("AI agent analyzing candidates in real-time...", total_resumes)
    ELSE IF workflow_status = "pending" /\ total_resumes > 0 /\ total_jds > 0
    THEN Text("Ready to start matching", 0)
    ELSE Text("Waiting for matching to start", 0)

\* workflow.py:207-208 and 233, processing_time_ms as the tenths of a second
\* that f"{t:.1f}s" prints ("0s" is 0)
ProcessingTime(ms) == IF ms > 0 THEN (ms + 50) \div 100 ELSE 0

\* Python's float is IEEE 754 binary64.  A positive float is kept here as
\* the bits of its 53-bit significand, least significant first, next to the
\* power of two that scales it.

\* Long division: k more quotient bits of r / n put in front of acc, with
\* the remainder that is left over
RECURSIVE DivBits(_, _, _, _)
DivBits(r, n, k, acc) ==
    IF k = 0 THEN [bits |-> acc, rem |-> r]
    ELSE DivBits((2 * r) % n, n, k - 1, <<(2 * r) \div n>> \o acc)

\* bits + 1
RECURSIVE Inc(_)
Inc(bits) ==
    IF bits = <<>> THEN <<1>>
    ELSE IF Head(bits) = 0 THEN <<1>> \o Tail(bits)
    ELSE <<0>> \o Inc(Tail(bits))

\* bits * c + carry
RECURSIVE MulSmall(_, _, _)
MulSmall(bits, c, carry) ==
    IF bits = <<>>
    THEN IF carry = 0 THEN <<>> ELSE <<carry % 2>> \o MulSmall(<<>>, c, carry \div 2)
    ELSE LET v == Head(bits) * c + carry
         IN  <<v % 2>> \o MulSmall(Tail(bits), c, v \div 2)

RECURSIVE ToInt(_)
ToInt(bits) == IF bits = <<>> THEN 0 ELSE Head(bits) + 2 * ToInt(Tail(bits))

\* Round to nearest, ties to even, after the lowest drop bits are cut off.
RoundBits(bits, drop) ==
    IF drop <= 0 THEN bits
    ELSE LET kept   == SubSeq(bits, drop + 1, Len(bits))
             sticky == \E i \in 1..(drop - 1) : bits[i] = 1
         IN  IF bits[drop] = 1 /\ (sticky \/ kept[1] = 1) THEN Inc(kept) ELSE kept

\* The float a / b for 0 < a <= b: significand bits and the exponent e of
\* the scale 2^-e
FloatDiv(a, b) ==
    LET s    == CHOOSE k \in 0..30 : /\ a * 2^k >= b
                                     /\ k = 0 \/ a * 2^(k - 1) < b
        d    == DivBits(a * 2^s - b, b, 52, <<1>>)
        up   == \/ 2 * d.rem > b
                \/ 2 * d.rem = b /\ d.bits[1] = 1
    IN  [bits |-> IF up THEN Inc(d.bits) ELSE d.bits, e |-> 52 + s]

\* The float x * c for a whole number c
FloatMul(x, c) ==
    LET p    == MulSmall(x.bits, c, 0)
        drop == Len(p) - 53
    IN  [bits |-> RoundBits(p, drop), e |-> IF drop > 0 THEN x.e - drop ELSE x.e]

\* int(x) for a float x >= 0
FloatInt(x) ==
    IF x.e <= 0 THEN ToInt(x.bits)
    ELSE IF x.e >= Len(x.bits) THEN 0
    ELSE ToInt(SubSeq(x.bits, x.e + 1, Len(x.bits)))

\* int(a / b * 100) as Python computes it, for 0 <= a <= b and b > 0
IntPercent(a, b) ==
    IF a = 0 THEN 0 ELSE FloatInt(FloatMul(FloatDiv(a, b), 100))

\* Largest number of resumes of a subject whose results are counted.
MaxMatches == 50

\* IntPercent for every count up to MaxMatches, computed once
PercentOf == [b \in 1..MaxMatches |-> [a \in 0..b |-> IntPercent(a, b)]]

\* workflow.py:203 and 243, int(completed_agents / total_agents * 100)
Percentage(completed, total) == PercentOf[total][completed]

\* workflow.py:107 and 234, f"{int(match_rate)}%" if matches else "0%"
MatchRate(high, total) == IF total = 0 THEN 0 ELSE PercentOf[total][high]

\* The snapshot of the except branch keeps on polling.
MutDegradedMonitoring(err) ==
    [ success    |-> FALSE,
      status     |-> "idle",
      agents     |-> IdleStages,
      metrics    |-> [totalCandidates |-> 0, processingTime |-> 0, matchRate |-> 0,
                      topMatches |-> 0],
      progress   |-> [completed |-> 0, total |-> 3, percentage |-> 0],
      monitoring |-> TRUE,
      error      |-> err ]

\* workflow.py:251-274, the snapshot of the except branch
Degraded(err) ==
    [ success    |-> FALSE,
      status     |-> "idle",
      agents     |-> IdleStages,
      metrics    |-> [totalCandidates |-> 0, processingTime |-> 0, matchRate |-> 0,
                      topMatches |-> 0],
      progress   |-> [completed |-> 0, total |-> 3, percentage |-> 0],
      monitoring |-> FALSE,
      error      |-> err ]

\* workflow.py:46, len(resume_ids) of the subject; unknown_ids stands for
\* the ids of the list that are of no stored resume
TotalResumes(w) == Len(Get(w, "resume_ids", <<>>)) + Get(w, "unknown_ids", 0)

\* workflow.py:49, total_jds
TotalJds(w) == IF Get(w, "jd_id", None) # None THEN 1 ELSE 0

\* workflow.py:98-104, matches: the list is empty for a subject without
\* resume ids or without a JD
Matches(w, res) ==
    IF TotalResumes(w) > 0 /\ TotalJds(w) > 0 THEN MatchesInScope(w, res) ELSE {}

\* workflow.py:106-112, m.get("match_score", 0) in tenths
MatchScore(m) == Get(m, "match_score", 0)

\* workflow.py:110, best_fit_count
best_fit_count(matches) == Cardinality({m \in matches : MatchScore(m) >= 800})

\* A score of exactly 80 is counted as a partial fit too.
MutPartialFitCountInclusive(matches) ==
    Cardinality({m \in matches : 500 <= MatchScore(m) /\ MatchScore(m) <= 800})

\* workflow.py:111, partial_fit_count
partial_fit_count(matches) ==
    Cardinality({m \in matches : 500 <= MatchScore(m) /\ MatchScore(m) < 800})

\* workflow.py:112, not_fit_count
not_fit_count(matches) == Cardinality({m \in matches : MatchScore(m) < 500})

\* Polling goes on for every subject that is not completed.
MutShouldMonitorUnlessCompleted(workflow_status) == workflow_status # "completed"

\* workflow.py:224-225, should_monitor
should_monitor(workflow_status) == workflow_status \in {"in_progress", "pending"}

\* The display status of a stage is the status stored for it.
MutStagesReplayStored(w, res) ==
    [i \in 1..3 |->
        StageView(<<"jd-reader", "resume-reader", "hr-comparator">>[i],
                  IF i <= Len(Get(w, "agents", <<>>)) THEN w.agents[i].status ELSE "idle",
                  Text("No data yet", 0))]

\* workflow.py:119-197, the agents list of the snapshot for subject w
Stages(w, res) ==
    LET total_resumes == TotalResumes(w)
        total_jds     == TotalJds(w)
        total_matches == Cardinality(MatchesInScope(w, res))
    IN  << StageView("jd-reader", IF total_jds > 0 THEN "completed" ELSE "idle",
                     IF total_jds > 0
                       THEN Text("Parsed job description(s) and extracted requirements",
                                 total_jds)
                       ELSE Text("Waiting for JD upload", 0)),
           StageView("resume-reader", IF total_resumes > 0 THEN "completed" ELSE "idle",
                     IF total_resumes > 0
                       THEN Text("Parsed resume(s) and extracted candidate details",
                                 total_resumes)
                       ELSE Text("Waiting for resumes", 0)),
           StageView("hr-comparator",
                     hr_comparator_status(Get(w, "status", "pending"), total_matches,
                                          total_resumes, total_jds),
                     hr_comparator_description(Get(w, "status", "pending"), total_matches,
                                               total_resumes, total_jds)) >>

\* workflow.py:36-58 and 96-249, the snapshot for subject w (scores are in
\* tenths; the timestamps and durations taken from the audit log and the
\* constant fields of a stage are left out)
Snapshot(w, res) ==
    LET total_resumes == TotalResumes(w)
        matches       == Matches(w, res)
        high_matches  == {m \in matches : MatchScore(m) >= 800}
        agents        == Stages(w, res)
        completed_agents == Cardinality({i \in 1..3 : agents[i].status = "completed"})
    IN  [ success    |-> TRUE,
          status     |-> Get(w, "status", "idle"),
          agents     |-> agents,
          metrics    |->
              [ totalCandidates |-> total_resumes,
                processingTime  |->
                    ProcessingTime(Get(Get(w, "metrics", <<>>), "processing_time_ms", 0)),
                matchRate       |-> MatchRate(Cardinality(high_matches), Cardinality(matches)),
                topMatches      |-> Cardinality(high_matches),
                bestFit         |-> best_fit_count(matches),
                partialFit      |-> partial_fit_count(matches),
                notFit          |-> not_fit_count(matches) ],
          progress   |-> [ completed  |-> completed_agents, total |-> 3,
                           percentage |-> Percentage(completed_agents, 3) ],
          monitoring |-> should_monitor(Get(w, "status", "idle")),
          workflowId |-> Get(w, "workflow_id", None),
          jdId       |-> IF Get(w, "jd_id", None) \in ExistingJds THEN w.jd_id ELSE None ]

\* What get_workflow_status raises inside its try for subject w: len() of a
\* resume_ids that is null (line 42), .get on a metrics that is null (207);
\* None when nothing is raised.  null_fields names the fields of a document
\* that are stored with the value null.
Raised(w) ==
    IF "resume_ids" \in Get(w, "null_fields", {})
    THEN "object of type 'NoneType' has no len()"
    ELSE IF "metrics" \in Get(w, "null_fields", {})
    THEN "'NoneType' object has no attribute 'get'"
    ELSE None

\* workflow.py:28-249, the try block: what it raises or what it returns.
\* With no record the else branch of 59-67 is taken and recent_workflow.get
\* at 206 raises on None.
TryBlock(jd_id, store, res, raises) ==
    IF raises THEN [raised |-> TRUE, error |-> "store read failed"]
    ELSE IF recent_workflow(jd_id, store) = {}
         THEN [raised |-> TRUE, error |-> "'NoneType' object has no attribute 'get'"]
         ELSE LET w == CHOOSE v \in recent_workflow(jd_id, store) : TRUE
              IN  IF Raised(w) # None THEN [raised |-> TRUE, error |-> Raised(w)]
                  ELSE [raised |-> FALSE, value |-> Snapshot(w, res)]

\* What the caller gets when the exception leaves the handler
ServerError(err) == [status_code |-> 500, detail |-> err]

\* Only the errors of the store are caught.
MutExceptStoreErrors(outcome) ==
    IF ~outcome.raised THEN outcome.value
    ELSE IF outcome.error = "store read failed" THEN Degraded(outcome.error)
    ELSE ServerError(outcome.error)

\* workflow.py:251-274, except Exception: whatever was raised becomes the
\* snapshot of the except branch
ExceptException(outcome) ==
    IF outcome.raised THEN Degraded(outcome.error) ELSE outcome.value

\* workflow.py:13-274, get_workflow_status
get_workflow_status(jd_id, store, res, raises) ==
    ExceptException(TryBlock(jd_id, store, res, raises))

\* The projector marks a subject that has matches completed.
MutGetWorkflowStatusRepairs(jd_id, raises) ==
    /\ view' = [op |-> "status", jd_id |-> jd_id,
                body |-> get_workflow_status(jd_id, workflows, results, raises)]
    /\ workflows' = { IF w \in recent_workflow(jd_id, workflows) /\ MatchesInScope(w, results) # {}
                        THEN [w EXCEPT !.status = "completed"] ELSE w : w \in workflows }
    /\ UNCHANGED <<now, AI_AGENT_ENABLED, resumes, results, run, single, inserts>>

\* GET /workflow/status
GetWorkflowStatus(jd_id, raises) ==
    /\ view' = [op |-> "status", jd_id |-> jd_id,
                body |-> get_workflow_status(jd_id, workflows, results, raises)]
    /\ UNCHANGED <<now, AI_AGENT_ENABLED, resumes, workflows, results, run, single, inserts>>

\* workflow.py:291-295 and 416-419, the records of the caller (one user is
\* modelled) that pass the status filter
FilterByStatus(store, status) ==
    IF status = None THEN store ELSE {w \in store : w.status = status}

\* workflow.py:276-315, GET /workflow/executions
GetWorkflowExecutions(status) ==
    /\ view' = [op |-> "executions",
                body |-> {[workflow_id |-> w.workflow_id, status |-> w.status,
                           total_resumes |-> w.total_resumes,
                           processed_resumes |-> w.processed_resumes]
                          : w \in FilterByStatus(workflows, status)}]
    /\ UNCHANGED <<now, AI_AGENT_ENABLED, resumes, workflows, results, run, single, inserts>>

\* workflow.py:317-349, GET /workflow/executions/{workflow_id}
GetWorkflowExecution(workflow_id) ==
    /\ view' = [op |-> "execution",
                body |-> IF WorkflowsById(workflows, workflow_id) = {} THEN {404}
                         ELSE {w.status : w \in WorkflowsById(workflows, workflow_id)}]
    /\ UNCHANGED <<now, AI_AGENT_ENABLED, resumes, workflows, results, run, single, inserts>>

\* workflow.py:408-426, GET /workflow/executions/stats/count
GetWorkflowCount(status) ==
    /\ view' = [op |-> "count", body |-> Cardinality(FilterByStatus(workflows, status))]
    /\ UNCHANGED <<now, AI_AGENT_ENABLED, resumes, workflows, results, run, single, inserts>>

\* workflow.py:364-369, update_data for a body that sets status
StatusUpdate(status, t) ==
    IF status = "completed" THEN [status |-> status, completed_at |-> t]
    ELSE [status |-> status]

\* workflow.py:351-380, PUT /workflow/executions/{workflow_id}/status
UpdateWorkflowExecutionStatus(workflow_id, status) ==
    /\ IF WorkflowsById(workflows, workflow_id) = {}
         THEN /\ view' = [op |-> "put", body |-> 404]
              /\ workflows' = workflows
         ELSE /\ view' = [op |-> "put", body |-> 200]
              /\ workflows' = UpdateWorkflowStatus(workflows, workflow_id,
                                                   StatusUpdate(status, now))
    /\ UNCHANGED <<now, AI_AGENT_ENABLED, resumes, results, run, single, inserts>>

\* workflow.py:382-406, DELETE /workflow/executions/{workflow_id}; owner says
\* whether started_by is the caller
DeleteWorkflowExecution(workflow_id, owner) ==
    /\ IF WorkflowsById(workflows, workflow_id) = {}
         THEN /\ view' = [op |-> "delete", body |-> 404]
              /\ workflows' = workflows
         ELSE IF ~owner
         THEN /\ view' = [op |-> "delete", body |-> 403]
              /\ workflows' = workflows
         ELSE /\ view' = [op |-> "delete", body |-> 200]
              /\ workflows' = workflows \ WorkflowsById(workflows, workflow_id)
    /\ UNCHANGED <<now, AI_AGENT_ENABLED, resumes, results, run, single, inserts>>

\* ------------------------------------------------------------------ Next
RequestLists == {<<>>, <<"R1">>, <<"R1", "R2">>, <<"R1", "R1">>}

\* The steps of request r after its workflow record exists.
BatchStep(r) ==
    \/ SendBatch(r)
    \/ MockReturns(r)
    \/ \E res \in AgentResults, ptime \in ProcTimes : AgentReturns(r, res, ptime)
    \/ \E ptime \in ProcTimes : AgentReturnsNoResults(r, ptime)
    \/ \E fault \in ScorerFaults : AgentRaises(r, fault)
    \/ ItemLookup(r)
    \/ ItemDelete(r)
    \/ ItemInsert(r)
    \/ ItemStoreError(r)
    \/ Finalize(r)
    \/ AuditAndReturn(r)
    \/ AuditRaises(r)

\* One batch-match request, of any shape, served on its own.
Next ==
    \/ Tick
    \/ \E jd \in RequestJds, ids \in RequestLists, unknown \in UnknownCounts :
          \/ StartBatchNoJd(1, jd, ids, unknown)
          \/ StartBatchOverLimit(1, jd, ids, unknown)
          \/ StartBatch(1, jd, ids, unknown)
    \/ BatchStep(1)

Spec == Init /\ [][Next]_vars

\* Two batch-match requests for resume "R1", single matches and result
\* deletions, interleaved at every store call; the scorer answers and no
\* store call raises other than by the unique index.
RaceResults == {<<>>, <<Item("R1", 900)>>, <<Item("R1", 900), Item("R1", 300)>>}

RaceNext ==
    \/ Tick
    \/ \E r \in Runs :
          \/ /\ \A q \in Runs : q < r => run[q].pc # "idle"
             /\ StartBatch(r, "JD-1", <<"R1">>, 0)
          \/ SendBatch(r)
          \/ \E res \in RaceResults, ptime \in ProcTimes : AgentReturns(r, res, ptime)
          \/ ItemLookup(r)
          \/ ItemDelete(r)
          \/ ItemInsert(r)
          \/ Finalize(r)
          \/ AuditAndReturn(r)
    \/ \E force \in BOOLEAN : SingleStart("R1", "JD-1", force)
    \/ SingleDelete
    \/ SingleInsert
    \/ \E id \in 1..8 : DeleteResult(id)

RaceInit ==
    /\ Init
    /\ AI_AGENT_ENABLED
    /\ resumes = ResumeIds

SpecRace == RaceInit /\ [][RaceNext]_vars

\* One batch-match request for "R1" and "R2", scored by the external
\* scorer, with the endpoints of routers/workflow.py called between its
\* steps; no store call of the request raises.
MonitorResults == {<<Item("R1", 900)>>, <<Item("R1", 900), Item("R2", 300)>>}

MonitorNext ==
    \/ Tick
    \/ StartBatch(1, "JD-1", <<"R1", "R2">>, 0)
    \/ SendBatch(1)
    \/ \E res \in MonitorResults, ptime \in ProcTimes : AgentReturns(1, res, ptime)
    \/ AgentRaises(1, "timeout")
    \/ ItemLookup(1)
    \/ ItemDelete(1)
    \/ ItemInsert(1)
    \/ Finalize(1)
    \/ AuditAndReturn(1)
    \/ \E jd_id \in JdParams : GetWorkflowStatus(jd_id, FALSE)
    \/ GetWorkflowStatus(None, TRUE)
    \/ \E status \in StatusFilters : GetWorkflowExecutions(status)
    \/ \E workflow_id \in WorkflowIdParams : GetWorkflowExecution(workflow_id)
    \/ \E status \in StatusFilters : GetWorkflowCount(status)
    \/ \E workflow_id \in WorkflowIdParams, status \in Statuses :
          UpdateWorkflowExecutionStatus(workflow_id, status)
    \/ \E workflow_id \in WorkflowIdParams, owner \in BOOLEAN :
          DeleteWorkflowExecution(workflow_id, owner)

MonitorInit ==
    /\ Init
    /\ AI_AGENT_ENABLED
    /\ resumes = ResumeIds

SpecMonitor == MonitorInit /\ [][MonitorNext]_vars

\* get_workflow_status as a function of the stores: the stores are drawn
\* from the families below and the endpoint is called on them.  Resumes are
\* numbered here.  The subject is the only record; one result of a resume
\* that is not in its list is always stored.
OtherResult == BatchResultDoc(1, Item(0, 900), "JD-1", NewWorkflowId(0))

\* A document without the field key
Without(d, key) == [k \in DOMAIN d \ {key} |-> d[k]]

\* A document whose field key is stored as null
WithNull(d, key) ==
    [k \in (DOMAIN d \ {key}) \cup {"null_fields"} |->
        IF k = "null_fields" THEN {key} ELSE d[k]]

\* What may be stored for one resume of the subject: no result (-1), a
\* result without match_score (-2), or a result with a score next to a
\* bucket boundary
StoredScores == {-1, -2, 499, 500, 799, 800}

ResultsOf(scores) ==
    { IF scores[i] = -2
        THEN Without(BatchResultDoc(i + 1, Item(i, 0), "JD-1", NewWorkflowId(1)), "match_score")
        ELSE BatchResultDoc(i + 1, Item(i, scores[i]), "JD-1", NewWorkflowId(1))
      : i \in {k \in 1..Len(scores) : scores[k] # -1} } \cup {OtherResult}

\* The record of a run over resumes 1..n as batch_match_resumes left it
\* (running, completed or failed), and then as the PUT endpoint left it
RunRecords(n) ==
    LET doc  == WorkflowDoc(NewWorkflowId(1), "JD-1", [i \in 1..n |-> i], 0, 1)
        left == {doc} \cup UpdateWorkflowStatus({doc}, NewWorkflowId(1), CompletedUpdate(1, n, n, 1500))
                      \cup UpdateWorkflowStatus({doc}, NewWorkflowId(1), FailedUpdate(error_msg("timeout")))
    IN  left \cup UNION { UpdateWorkflowStatus({w}, NewWorkflowId(1), StatusUpdate(status, 1))
                          : w \in left, status \in Statuses }

\* The same records as another writer to the collection may have left them:
\* with a field missing or null
Shapes(w) ==
    {w, Without(w, "status"), Without(w, "metrics"), WithNull(w, "metrics"),
     Without(w, "jd_id"), Without(Without(w, "resume_ids"), "unknown_ids"),
     WithNull(Without(w, "unknown_ids"), "resume_ids")}

\* Scores of n results of which the first high are 90.0, the next one 60.0
\* and the others 30.0
RateScores(n, high) ==
    [i \in 1..n |-> IF i <= high THEN 900 ELSE IF i = high + 1 THEN 600 ELSE 300]

\* The record of a completed run over resumes 1..n
CompletedRecord(n) ==
    CHOOSE w \in RunRecords(n) : w.status = "completed" /\ w.agents = CompletedAgents

\* The stores drawn: every shape of every record of a run over at most two
\* resumes with every choice of what is stored for them,
ShapeStores ==
    UNION { { <<v, ResultsOf(scores)>> : v \in UNION {Shapes(w) : w \in RunRecords(Len(scores))} }
            : scores \in SeqsUpTo(StoredScores, 2) }

\* and the completed runs over at most MaxMatches resumes with every number
\* of high scores
RateStores ==
    UNION { { <<CompletedRecord(n), ResultsOf(RateScores(n, high))>> : high \in 0..n }
            : n \in 0..MaxMatches }

ProjectStores == ShapeStores \cup RateStores

ProjectInit ==
    /\ now = 0
    /\ AI_AGENT_ENABLED = TRUE
    /\ resumes = ResumeIds
    /\ \/ \E store \in ProjectStores : workflows = {store[1]} /\ results = store[2]
       \/ workflows = {} /\ results = {OtherResult}
    /\ inserts = [x \in ResumeIds |-> NoInsert]
    /\ run = [r \in Runs |-> IdleRun]
    /\ single = IdleSingle
    /\ view = NoView

ProjectNext ==
    \/ \E jd_id \in JdParams : GetWorkflowStatus(jd_id, FALSE)
    \/ GetWorkflowStatus(None, TRUE)

SpecProject == ProjectInit /\ [][ProjectNext]_vars

\* ---------------------------------------------------------------- claims
\* The workflow records request r created (by workflow id), the stores as
\* they were before any request, and the documents of a pair.
RecordsOf(r) == WorkflowsById(workflows, run[r].workflow_id)
StoresUntouchedSinceInit ==
    \/ workflows = {} /\ results = {}
    \/ workflows = EarlierWorkflows /\ results = EarlierResults
ResultsAsAtInit == IF EarlierWorkflows \subseteq workflows THEN EarlierResults ELSE {}
StageStatuses(w) == [i \in 1..Len(w.agents) |-> w.agents[i].status]
StageIds(w) == [i \in 1..Len(w.agents) |-> w.agents[i].agent_id]

\* The scorer raised in request r: the handler ended in its except branch
\* with one of call_ai_agent_batch's errors.
ScorerFailed(r) == run[r].pc = "raised" /\ run[r].error \in ScorerErrors

\* C1: when the scoring client raises, the workflow record stays in the
\* store with status failed, the error string is on the record and on the
\* hr-comparator stage (whose status is failed), and the run has created,
\* replaced or deleted no MatchResult: the result store is as it was before
\* the request and holds no document of this workflow.
C1_ScorerFailureMarksFailed ==
    \A r \in Runs :
        ScorerFailed(r) =>
            /\ Cardinality(RecordsOf(r)) = 1
            /\ \A w \in RecordsOf(r) :
                  /\ w.status = "failed"
                  /\ w.error = run[r].error
                  /\ StageIds(w) = <<"jd-reader", "resume-reader", "hr-comparator">>
                  /\ StageStatuses(w) = <<"completed", "completed", "failed">>
                  /\ w.agents[3].error = run[r].error
            /\ results = ResultsAsAtInit
            /\ \A m \in results : m.workflow_id # run[r].workflow_id

\* C1 witness: the scorer timed out while an earlier run's MatchResult was
\* in the store.
C1_Witness ==
    /\ ScorerFailed(1)
    /\ run[1].error = "AI Agent timeout - processing took too long"
    /\ results = EarlierResults

\* Positions of the handler inside the loop over the scorer's results.
InLoop(r) == run[r].pc \in {"lookup", "delete", "insert"}
LoopDone(r) == run[r].pc \in {"finalize", "audit", "returned"}
\* Item i is the last one of request r for its resume.
LastForResume(r, i) ==
    \A j \in (i + 1)..Len(run[r].ai_results) :
        run[r].ai_results[j].resume_id # run[r].ai_results[i].resume_id
FailedItems(r) == {i \in 1..Len(run[r].log) : run[r].log[i] # "saved"}

\* C2: with N results returned and persistence failing for k of them, the
\* loop still handles all N items, each of the other N-k is persisted (its
\* document is in the store unless a later item of the same run is for the
\* same resume), the record is marked completed with processed_resumes =
\* N-k, and while items fail the record is not marked failed.
C2_ContinueOnError ==
    \A r \in Runs :
        /\ (InLoop(r) \/ LoopDone(r)) =>
              /\ run[r].failed_count = Cardinality(FailedItems(r))
              /\ run[r].processed_count = Len(run[r].log) - Cardinality(FailedItems(r))
              /\ \A i \in 1..Len(run[r].log) :
                    (run[r].log[i] = "saved" /\ LastForResume(r, i) /\ ~InLoop(r)) =>
                        \E m \in results :
                            /\ m.resume_id = run[r].ai_results[i].resume_id
                            /\ m.jd_id = run[r].jd_id
                            /\ m.workflow_id = run[r].workflow_id
                            /\ m.match_score = run[r].ai_results[i].match_score
        /\ (InLoop(r) \/ run[r].pc = "finalize") =>
              \A w \in RecordsOf(r) : w.status = "in_progress"
        /\ LoopDone(r) => Len(run[r].log) = Len(run[r].ai_results)
        /\ run[r].pc \in {"audit", "returned"} =>
              /\ Cardinality(RecordsOf(r)) = 1
              /\ \A w \in RecordsOf(r) :
                    /\ w.status = "completed"
                    /\ w.processed_resumes = Len(run[r].ai_results) - run[r].failed_count

\* C2 witness: a run returned after two results of which one failed to
\* persist and one was saved.
C2_Witness ==
    /\ run[1].pc = "returned"
    /\ Len(run[1].ai_results) = 2
    /\ run[1].failed_count = 1
    /\ run[1].log = <<"store error", "saved">>

\* C3: in every reachable state of the result store, however single
\* matches, batch runs and result deletions interleave, there is at most one
\* MatchResult per (resume_id, jd_id).
C3_OneResultPerPair ==
    \A x \in ResumeIds, jd \in RequestJds :
        Cardinality(ResultsOfPair(results, x, jd)) <= 1

\* C3 witness: a single match has stored a MatchResult for ("R1", "JD-1")
\* while both batch runs are each about to insert one for that pair.
C3_Witness ==
    /\ \E m \in ResultsOfPair(results, "R1", "JD-1") : m.workflow_id = -1
    /\ \A r \in Runs : run[r].pc = "insert" /\ CurrentItem(run[r]).resume_id = "R1"

\* C4: after a batch run is executed for a pair that already has a
\* MatchResult, once its loop is over and no store call for that resume
\* raised, the item was saved and exactly one MatchResult exists for the
\* pair: the one of the new run (its workflow id, the score of its last item
\* for the resume); the prior document is gone.
C4_RerunReplaces ==
    \A r \in Runs :
        LoopDone(r) =>
            \A i \in 1..Len(run[r].ai_results) :
                ( /\ LastForResume(r, i)
                  /\ \A j \in 1..Len(run[r].ai_results) :
                        run[r].ai_results[j].resume_id = run[r].ai_results[i].resume_id
                            => run[r].log[j] # "store error" ) =>
                    /\ run[r].log[i] = "saved"
                    /\ Cardinality(ResultsOfPair(results, run[r].ai_results[i].resume_id,
                                                 run[r].jd_id)) = 1
                    /\ \A m \in ResultsOfPair(results, run[r].ai_results[i].resume_id,
                                              run[r].jd_id) :
                          /\ m.workflow_id = run[r].workflow_id
                          /\ m.match_score = run[r].ai_results[i].match_score
                          /\ m \notin EarlierResults

\* C4 witness: an earlier run left a MatchResult for ("R1", "JD-1"), and a
\* new run that got a result for "R1" has returned.
C4_Witness ==
    /\ EarlierWorkflows \subseteq workflows
    /\ run[1].pc = "returned"
    /\ run[1].ai_results = <<Item("R1", 900)>>
    /\ run[1].log = <<"saved">>

BothReturned == \A r \in Runs : run[r].pc = "returned"
RunIds == {run[r].workflow_id : r \in Runs}

\* C5 as claimed: when two batch runs for the same pair interleave, then
\* after both have finished the MatchResult stored for the pair is the one
\* of the run that attempted its insert last.
C5_LastAttemptWins ==
    (BothReturned /\ inserts["R1"].last_attempt \in RunIds) =>
        \A m \in ResultsOfPair(results, "R1", "JD-1") :
            m.workflow_id \in RunIds => m.workflow_id = inserts["R1"].last_attempt

\* C5 as amended: the MatchResult stored for a pair is the one of the
\* writer whose insert succeeded last; a run whose insert was attempted last
\* and rejected by the unique index has printed that error and counted the
\* item as failed.
C5_LastSuccessfulInsertWins ==
    \A x \in ResumeIds :
        /\ \A m \in ResultsOfPair(results, x, "JD-1") :
              m.workflow_id = inserts[x].last_success
        /\ \A r \in Runs :
              ( /\ LoopDone(r)
                /\ inserts[x].last_attempt = run[r].workflow_id
                /\ inserts[x].last_success # run[r].workflow_id ) =>
                  /\ run[r].failed_count >= 1
                  /\ \E i \in 1..Len(run[r].log) : run[r].log[i] = "DuplicateKeyError"

\* C5 witness: both runs have returned, the stored MatchResult for
\* ("R1", "JD-1") is of one run and the other run attempted its insert last.
C5_Witness ==
    /\ BothReturned
    /\ inserts["R1"].last_attempt = run[2].workflow_id
    /\ \E m \in ResultsOfPair(results, "R1", "JD-1") : m.workflow_id = run[1].workflow_id

\* C6: a request whose resolved resume id list is longer than
\* FREE_PLAN_RESUME_LIMIT is refused with 400, one whose JD does not exist
\* with 404; either way the stores are as before the request: no workflow
\* record, no outbound batch and no scorer result, no MatchResult touched.
C6_RejectedLeavesStores ==
    \A r \in Runs :
        /\ run[r].pc = "rejected" =>
              /\ StoresUntouchedSinceInit
              /\ run[r].resumes_data = <<>>
              /\ run[r].ai_results = <<>>
              /\ run[r].response.kind = "error"
              /\ \/ run[r].response.code = 404 /\ run[r].jd_id \notin ExistingJds
                 \/ /\ run[r].response.code = 400
                    /\ run[r].jd_id \in ExistingJds
                    /\ ReqLen(run[r].resume_ids, run[r].unknown_ids) > 100
        /\ ( /\ run[r].pc # "idle"
             /\ \/ run[r].jd_id \notin ExistingJds
                \/ ReqLen(run[r].resume_ids, run[r].unknown_ids) > 100 ) =>
              run[r].pc = "rejected"

\* C6 witness: a request for 101 resumes was refused with 400 while the
\* stores held an earlier run's documents.
C6_Witness ==
    /\ run[1].pc = "rejected"
    /\ run[1].response.code = 400
    /\ ReqLen(run[1].resume_ids, run[1].unknown_ids) = 101
    /\ workflows = EarlierWorkflows

Accepted(r) == run[r].pc \notin {"idle", "rejected"}
Created(r) == run[r].pc \notin {"idle", "rejected", "collided"}
EarlierCount == IF EarlierWorkflows \subseteq workflows THEN 1 ELSE 0

C8_ReturnsWithTerminalStatus ==
    \A r \in Runs :
        /\ run[r].pc = "returned" =>
              /\ run[r].response.kind = "ok"
              /\ Cardinality(RecordsOf(r)) = 1
              /\ \A w \in RecordsOf(r) :
                    /\ w.status \in {"completed", "failed"}
                    /\ run[r].response.data[1].status = w.status
                    /\ run[r].response.data[1].workflow_id = w.workflow_id
        /\ run[r].pc = "raised" =>
              /\ run[r].response.kind = "error"
              /\ run[r].response.code = 500
              /\ Cardinality(RecordsOf(r)) = 1
              /\ \A w \in RecordsOf(r) : w.status \in {"completed", "failed"}

\* C8 witness: a handler returned its 500 after the audit log write raised.
C8_Witness ==
    /\ run[1].pc = "raised"
    /\ run[1].error = "audit log write failed"
    /\ run[1].response.code = 500

\* C9: on the success path, once all returned items are handled and the
\* terminal update is written, the record has status completed, its three
\* stages are completed, progress is 3 of 3 at 100% and match_rate is 100,
\* however many items were persisted.
C9_SuccessPathRecord ==
    \A r \in Runs :
        run[r].pc \in {"audit", "returned"} =>
            /\ Cardinality(RecordsOf(r)) = 1
            /\ \A w \in RecordsOf(r) :
                  /\ w.status = "completed"
                  /\ StageIds(w) = <<"jd-reader", "resume-reader", "hr-comparator">>
                  /\ StageStatuses(w) = <<"completed", "completed", "completed">>
                  /\ w.progress = [completed_agents |-> 3, total_agents |-> 3, percentage |-> 100]
                  /\ w.metrics.match_rate = 100

\* C9 witness: a run returned with two results of which none was persisted.
C9_Witness ==
    /\ run[1].pc = "returned"
    /\ Len(run[1].ai_results) = 2
    /\ run[1].processed_count = 0

\* C10: from its creation to the terminal update the record has status
\* in_progress, jd-reader and resume-reader completed, hr-comparator
\* in_progress, processed_resumes 0 and progress 2 of 3.
C10_RecordWhileRunning ==
    \A r \in Runs :
        run[r].pc \in {"created", "awaiting", "lookup", "delete", "insert", "finalize"} =>
            /\ Cardinality(RecordsOf(r)) = 1
            /\ \A w \in RecordsOf(r) :
                  /\ w.status = "in_progress"
                  /\ StageIds(w) = <<"jd-reader", "resume-reader", "hr-comparator">>
                  /\ StageStatuses(w) = <<"completed", "completed", "in_progress">>
                  /\ w.processed_resumes = 0
                  /\ w.progress.completed_agents = 2
                  /\ w.progress.total_agents = 3
                  /\ w.progress.percentage = 66
                  /\ w.completed_at = -1
                  /\ w.error = None

\* C10 witness: the loop has saved one item and is about to insert the
\* next, and the record still is as created.
C10_Witness ==
    /\ run[1].pc = "insert"
    /\ run[1].processed_count = 1
    /\ \E m \in results : m.workflow_id = run[1].workflow_id

\* C13: when the workflow id generated for a new run is the workflow_id of
\* an existing record, the request ends with an error, the existing record
\* and the results are exactly as before (not failed, not overwritten),
\* one record has that id, and nothing was sent to the scorer.
C13_CollisionLeavesRecord ==
    \A r \in Runs :
        run[r].pc = "collided" =>
            /\ run[r].response.kind = "error"
            /\ run[r].response.code = 500
            /\ workflows = EarlierWorkflows
            /\ results = EarlierResults
            /\ Cardinality(WorkflowsById(workflows, run[r].workflow_id)) = 1
            /\ \A w \in WorkflowsById(workflows, run[r].workflow_id) :
                  /\ w.status = "completed"
                  /\ w.error = None
                  /\ w.resume_ids = <<"R1">>
                  /\ StageStatuses(w) = <<"completed", "completed", "completed">>
            /\ run[r].resumes_data = <<>>
            /\ run[r].ai_response = "none"
            /\ run[r].ai_results = <<>>

\* C13 witness: a request for two resumes generated the id of the earlier
\* run's record and ended with the store's error.
C13_Witness ==
    /\ run[1].pc = "collided"
    /\ run[1].resume_ids = <<"R1", "R2">>
    /\ run[1].response.detail = "DuplicateKeyError"
    /\ \E w \in workflows : w.workflow_id = run[1].workflow_id

\* C14 as claimed: a 200 response whose body has no "results" list is never
\* taken as a successful result: the request is in its except branch and
\* its record is failed, not completed.
C14_InvalidBodyIsBadResponse ==
    \A r \in Runs :
        run[r].ai_response = "no_results" =>
            /\ run[r].pc = "raised"
            /\ \A w \in RecordsOf(r) : w.status = "failed"

FaultClass(fault) ==
    CASE fault = "timeout"   -> "Timeout"
      [] fault = "connect"   -> "ConnectFailed"
      [] fault = "status"    -> "BadResponse"
      [] fault = "parse"     -> "BadResponse"
      [] fault = "transport" -> "TransportError"
ReasonClass ==
    ( "AI Agent timeout - processing took too long" :> "Timeout" ) @@
    ( "Cannot connect to AI Agent - is it running?" :> "ConnectFailed" ) @@
    ( "AI Agent error: AI Agent returned error: 500" :> "BadResponse" ) @@
    ( "AI Agent error: Failed to parse AI Agent JSON response" :> "BadResponse" ) @@
    ( "AI Agent error: transport" :> "TransportError" )

\* C15: every failure of call_ai_agent_batch reaches the caller as one
\* exception whose reason string tells the class of what went wrong:
\* Timeout, ConnectFailed, BadResponse (status other than 200, body that does
\* not parse) or TransportError (anything else); reasons of different
\* classes are different strings, BadResponse and TransportError included.
C15_FailureReasonClassified ==
    /\ \A f1 \in ScorerFaults, f2 \in ScorerFaults :
          FaultClass(f1) # FaultClass(f2) => error_msg(f1) # error_msg(f2)
    /\ \A r \in Runs :
          run[r].ai_response \in ScorerFaults =>
              /\ run[r].pc = "raised"
              /\ run[r].response.kind = "error"
              /\ run[r].error \in DOMAIN ReasonClass
              /\ ReasonClass[run[r].error] = FaultClass(run[r].ai_response)
              /\ \A w \in RecordsOf(r) : w.error = run[r].error

\* C15 witness: the scorer answered with a status other than 200 and the
\* request ended in its except branch with the reason of a bad response.
C15_Witness ==
    /\ run[1].ai_response = "status"
    /\ run[1].pc = "raised"
    /\ run[1].error = "AI Agent error: AI Agent returned error: 500"

AllExist(ids) == \A i \in 1..Len(ids) : ids[i] \in resumes
NoStoreError(r) == \A i \in 1..Len(run[r].log) : run[r].log[i] # "store error"

\* C16: with the external scorer disabled, call_ai_agent_batch does not
\* post, does not raise and returns one result per outbound resume, in
\* order, with that resume's id; a run in this mode over ids that all exist,
\* none of whose store calls raised, ends completed with one MatchResult of
\* the run per distinct resume id.
C16_MockModeScoresEveryResume ==
    \A r \in Runs :
        /\ ( /\ ~AI_AGENT_ENABLED
             /\ run[r].pc \in {"lookup", "delete", "insert", "finalize", "audit",
                               "returned", "raised"} ) =>
              /\ run[r].ai_response = "mock"
              /\ run[r].error \notin ScorerErrors
              /\ Len(run[r].ai_results) = Len(run[r].resumes_data)
              /\ \A i \in 1..Len(run[r].resumes_data) :
                    run[r].ai_results[i].resume_id = run[r].resumes_data[i]
        /\ ( /\ ~AI_AGENT_ENABLED
             /\ run[r].pc \in {"audit", "returned"}
             /\ run[r].unknown_ids = 0
             /\ AllExist(run[r].resume_ids)
             /\ NoStoreError(r) ) =>
              /\ \A w \in RecordsOf(r) : w.status = "completed"
              /\ \A i \in 1..Len(run[r].resume_ids) :
                    /\ Cardinality(ResultsOfPair(results, run[r].resume_ids[i],
                                                 run[r].jd_id)) = 1
                    /\ \A m \in ResultsOfPair(results, run[r].resume_ids[i], run[r].jd_id) :
                          m.workflow_id = run[r].workflow_id
              /\ run[r].processed_count = Len(run[r].resume_ids)

\* C16 witness: a mock-mode run over "R1" and "R2" returned and both have a
\* MatchResult of that run.
C16_Witness ==
    /\ ~AI_AGENT_ENABLED
    /\ run[1].pc = "returned"
    /\ run[1].resume_ids = <<"R1", "R2">>
    /\ run[1].ai_response = "mock"
    /\ Cardinality({m \in results : m.workflow_id = run[1].workflow_id}) = 2

\* C17: ids whose resume is not found are left out without an error: the
\* outbound batch is the sub-list of resume_ids whose resume exists, in the
\* order of the request, while the record keeps total_resumes =
\* len(resume_ids) and the whole resume_ids list.
C17_MissingResumesSkipped ==
    \A r \in Runs :
        run[r].pc \in {"awaiting", "lookup", "delete", "insert", "finalize", "audit",
                       "returned", "raised"} =>
            /\ run[r].resumes_data = SelectSeq(run[r].resume_ids, LAMBDA x : x \in resumes)
            /\ Cardinality(RecordsOf(r)) = 1
            /\ \A w \in RecordsOf(r) :
                  /\ w.total_resumes = Len(run[r].resume_ids) + run[r].unknown_ids
                  /\ w.resume_ids = run[r].resume_ids
                  /\ w.unknown_ids = run[r].unknown_ids

\* C17 witness: a request named "R1" and "R2", only "R1" is stored, the
\* scorer got "R1" alone and the run ended completed with total_resumes 2.
C17_Witness ==
    /\ resumes = {"R1"}
    /\ run[1].pc = "returned"
    /\ run[1].resume_ids = <<"R1", "R2">>
    /\ run[1].resumes_data = <<"R1">>
    /\ \E w \in RecordsOf(1) : w.status = "completed" /\ w.total_resumes = 2

\* C11 as claimed: the status and the stages of an existing record change
\* only in a step of the batch handler that created the record; no other
\* operation changes them.
C11_OnlyOrchestratorWrites ==
    [][ \A w \in workflows : \A v \in workflows' :
            ( /\ v.workflow_id = w.workflow_id
              /\ (v.status # w.status \/ v.agents # w.agents) ) =>
                \E r \in Runs : /\ run[r].workflow_id = w.workflow_id
                                /\ run'[r].pc # run[r].pc ]_vars

ReadOps == {"status", "executions", "execution", "count"}

\* C12: a step in which get_workflow_status, get_workflow_executions,
\* get_workflow_execution or get_workflow_count answers, with a result or
\* with an error, leaves every workflow record and every MatchResult as it
\* was.
C12_ReadPathsLeaveStores ==
    [][ (run' = run /\ now' = now /\ view'.op \in ReadOps) =>
            (workflows' = workflows /\ results' = results) ]_vars

\* C12 witness: get_workflow_status has answered with its error snapshot
\* while the stores hold the earlier run's record and result.
C12_Witness ==
    /\ view.op = "status"
    /\ ~view.body.success
    /\ workflows = EarlierWorkflows
    /\ results = EarlierResults

\* C18: in every store state get_workflow_status gives the same snapshot for
\* every value of jd_id (absent, the subject's JD, another JD), and with
\* records in the store it is the snapshot of a record no other record was
\* started after.
C18_SubjectIsLatestWhateverJd ==
    /\ \A j1 \in JdParams, j2 \in JdParams :
          get_workflow_status(j1, workflows, results, FALSE)
              = get_workflow_status(j2, workflows, results, FALSE)
    /\ workflows # {} =>
          \A j \in JdParams :
              /\ get_workflow_status(j, workflows, results, FALSE).success
              /\ \E w \in workflows :
                    /\ w.workflow_id
                          = get_workflow_status(j, workflows, results, FALSE).workflowId
                    /\ \A v \in workflows : v.started_at <= w.started_at

\* C18 witness: with two records in the store, a call with the id of
\* another JD was answered with the snapshot of the record started last.
C18_Witness ==
    /\ view.op = "status"
    /\ view.jd_id = "JD-404"
    /\ view.body.success
    /\ Cardinality(workflows) = 2
    /\ view.body.workflowId = NewWorkflowId(1)
    /\ \A w \in workflows : w.jd_id = "JD-1"

\* C19: with no workflow record in the store, the snapshot of
\* get_workflow_status has monitoring false, the three stages jd-reader,
\* resume-reader and hr-comparator idle, zero metrics and zero progress.
C19_EmptyStoreSnapshotIdle ==
    workflows = {} =>
        \A j \in JdParams :
            LET s == get_workflow_status(j, workflows, results, FALSE)
            IN  /\ s.monitoring = FALSE
                /\ [i \in 1..Len(s.agents) |-> s.agents[i].id]
                      = <<"jd-reader", "resume-reader", "hr-comparator">>
                /\ [i \in 1..Len(s.agents) |-> s.agents[i].status] = <<"idle", "idle", "idle">>
                /\ s.metrics.totalCandidates = 0
                /\ s.metrics.processingTime = 0
                /\ s.metrics.matchRate = 0
                /\ s.metrics.topMatches = 0
                /\ s.progress.completed = 0
                /\ s.progress.percentage = 0

\* C19 witness: the only record was deleted, results are still stored, and
\* get_workflow_status has answered for the empty record store.
C19_Witness ==
    /\ workflows = {}
    /\ results = EarlierResults
    /\ view.op = "status"
    /\ view.jd_id = None
    /\ ~view.body.monitoring
    /\ view.body.progress.completed = 0

\* C20 as claimed: with no workflow record and no fault, the snapshot of
\* get_workflow_status is the normal one (success, no error field), not the
\* snapshot of the except branch.
C20_EmptyStoreIsNotDegraded ==
    workflows = {} =>
        \A j \in JdParams :
            /\ get_workflow_status(j, workflows, results, FALSE).success
            /\ "error" \notin DOMAIN get_workflow_status(j, workflows, results, FALSE)

\* The subject of get_workflow_status as a set: the record started last.
Subject == recent_workflow(None, workflows)

\* C21: in every store state and for every jd_id, the snapshot of
\* get_workflow_status has monitoring true exactly when there is a subject
\* and its status is in_progress or pending; the snapshot of the except
\* branch has monitoring false.
C21_MonitoringIffActive ==
    /\ \A j \in JdParams :
          get_workflow_status(j, workflows, results, FALSE).monitoring
              <=> \E w \in Subject : w.status \in {"in_progress", "pending"}
    /\ \A j \in JdParams : ~get_workflow_status(j, workflows, results, TRUE).monitoring
    /\ view.op = "status" =>
          /\ view.body.monitoring => view.body.status \in {"in_progress", "pending"}
          /\ ~view.body.success => ~view.body.monitoring

\* C21 witness: the subject was set back to pending after its run had
\* failed, and get_workflow_status has answered with monitoring true.
C21_Witness ==
    /\ run[1].pc = "raised"
    /\ \E w \in Subject : w.workflow_id = run[1].workflow_id /\ w.status = "pending"
    /\ view.op = "status"
    /\ view.body.success
    /\ view.body.status = "pending"
    /\ view.body.monitoring

\* The results the store holds for the subject's resumes and JD, and their
\* scores (a result without a score counts as 0).
InScope ==
    {m \in results : \E w \in Subject :
        /\ "jd_id" \in DOMAIN w /\ m.jd_id = w.jd_id
        /\ "resume_ids" \in DOMAIN w
        /\ \E i \in 1..Len(w.resume_ids) : w.resume_ids[i] = m.resume_id}

ScoreOf(m) == IF "match_score" \in DOMAIN m THEN m.match_score ELSE 0

\* The snapshot for the stores as they are, when no store read raises.
Current == get_workflow_status(None, workflows, results, FALSE)

\* C22: in every normal snapshot bestFit, partialFit and notFit are the
\* numbers of in-scope results with score >= 80, with 50 <= score < 80 and
\* with score < 50, they add up to the number of in-scope results, which is
\* the number hr-comparator is said to have scored, and topMatches is
\* bestFit.
C22_FitBucketsPartition ==
    LET snapshot == Current
        scores   == [m \in InScope |-> ScoreOf(m)]
        matches  == DOMAIN scores
    IN  snapshot.success =>
            /\ snapshot.metrics.bestFit = Cardinality({m \in matches : scores[m] >= 800})
            /\ snapshot.metrics.partialFit
                  = Cardinality({m \in matches : 500 <= scores[m] /\ scores[m] < 800})
            /\ snapshot.metrics.notFit = Cardinality({m \in matches : scores[m] < 500})
            /\ snapshot.metrics.bestFit + snapshot.metrics.partialFit
                  + snapshot.metrics.notFit = Cardinality(matches)
            /\ matches # {} => snapshot.agents[3].description.n = Cardinality(matches)
            /\ snapshot.metrics.topMatches = snapshot.metrics.bestFit

\* C22 witness: results scoring 80.0 and 79.9 are in scope and the snapshot
\* returned counts one best and one partial fit.
C22_Witness ==
    /\ {ScoreOf(m) : m \in InScope} = {800, 799}
    /\ view.op = "status"
    /\ view.body.success
    /\ view.body.metrics.bestFit = 1
    /\ view.body.metrics.partialFit = 1
    /\ view.body.metrics.notFit = 0

\* C23 as claimed: in every normal snapshot matchRate is 100 * high / total
\* rounded down, where total is the number of in-scope results and high the
\* number of them with score >= 80, and 0 when there is none; for results
\* scoring 90, 60 and 30 it is 33.
C23_MatchRateIsFloor ==
    Current.success =>
        /\ InScope = {} => Current.metrics.matchRate = 0
        /\ InScope # {} =>
              Current.metrics.matchRate
                  = (100 * Cardinality({m \in InScope : ScoreOf(m) >= 800}))
                        \div Cardinality(InScope)
        /\ {ScoreOf(m) : m \in InScope} = {900, 600, 300} /\ Cardinality(InScope) = 3
              => Current.metrics.matchRate = 33

\* What the claim lets the stage display depend on, taken from a store: the
\* number of resume ids of the subject, whether it has a JD, the number of
\* results in scope and its status.
KeyOf(w, res) ==
    [ total_resumes |-> IF "resume_ids" \in DOMAIN w THEN Len(w.resume_ids) ELSE 0,
      total_jds     |-> IF "jd_id" \in DOMAIN w THEN 1 ELSE 0,
      total_matches |-> Cardinality({m \in res :
                            /\ "jd_id" \in DOMAIN w /\ m.jd_id = w.jd_id
                            /\ "resume_ids" \in DOMAIN w
                            /\ \E i \in 1..Len(w.resume_ids) : w.resume_ids[i] = m.resume_id}),
      status        |-> IF "status" \in DOMAIN w THEN w.status ELSE "absent" ]

Display(snapshot) ==
    [i \in 1..Len(snapshot.agents) |->
        <<snapshot.agents[i].id, snapshot.agents[i].status, snapshot.agents[i].description>>]

\* Key and stage display of every drawn store of a run over at most two
\* resumes that gets a normal snapshot.
StageTable ==
    { [key     |-> KeyOf(store[1], store[2]),
       display |-> Display(get_workflow_status(None, {store[1]}, store[2], FALSE))]
      : store \in {x \in ShapeStores :
                      get_workflow_status(None, {x[1]}, x[2], FALSE).success} }

\* C24: the stage statuses and descriptions of a normal snapshot are those
\* of every drawn store with the same total_resumes, total_jds, total_matches
\* and status, whatever the stage lists stored; and for a subject with a
\* status hr-comparator is shown completed when total_matches > 0, else
\* in-progress when the status is in_progress, else pending when the status
\* is pending and there is a resume and a JD, else idle.
C24_StageDisplayFromCounts ==
    \A w \in Subject :
        LET key     == KeyOf(w, results)
            display == Display(Current)
        IN  Current.success =>
                /\ \A p \in StageTable : p.key = key => p.display = display
                /\ "status" \in DOMAIN w =>
                      display[3][2] =
                          IF key.total_matches > 0 THEN "completed"
                          ELSE IF w.status = "in_progress" THEN "in-progress"
                          ELSE IF /\ w.status = "pending"
                                  /\ key.total_resumes > 0
                                  /\ key.total_jds > 0 THEN "pending"
                          ELSE "idle"

\* C24 witness: the subject's stored stage list says hr-comparator failed,
\* its status was set to in_progress afterwards, nothing is in scope, and
\* the snapshot returned shows hr-comparator in progress.
C24_Witness ==
    /\ \E w \in Subject :
          /\ "status" \in DOMAIN w
          /\ w.status = "in_progress"
          /\ w.agents[3].status = "failed"
          /\ KeyOf(w, results).total_matches = 0
    /\ view.op = "status"
    /\ view.body.success
    /\ view.body.agents[3].status = "in-progress"

SnapshotFields == {"success", "status", "agents", "metrics", "progress", "monitoring"}

\* C25: for every store and every jd_id, whether a store read raises or
\* not, get_workflow_status returns a snapshot; and when a read raises, the
\* store has no record, or a sub-field of the subject is null where the
\* code needs a value, the snapshot has success false, the three stages idle
\* and monitoring false.
C25_NeverRaises ==
    \A j \in JdParams, raises \in BOOLEAN :
        LET s == get_workflow_status(j, workflows, results, raises)
        IN  /\ SnapshotFields \subseteq DOMAIN s
            /\ (raises \/ Subject = {} \/ \E w \in Subject : "null_fields" \in DOMAIN w) =>
                  /\ s.success = FALSE
                  /\ \A i \in 1..3 : s.agents[i].status = "idle"
                  /\ Len(s.agents) = 3
                  /\ s.monitoring = FALSE
            /\ (~raises /\ \E w \in Subject : "null_fields" \notin DOMAIN w) => s.success

\* C25 witness: the subject's resume_ids is stored as null and the endpoint
\* has answered with the snapshot of the except branch.
C25_Witness ==
    /\ \E w \in Subject : "null_fields" \in DOMAIN w /\ "resume_ids" \in w.null_fields
    /\ view.op = "status"
    /\ view.jd_id = "JD-1"
    /\ SnapshotFields \subseteq DOMAIN view.body
    /\ view.body.success = FALSE
    /\ view.body.error = "object of type 'NoneType' has no len()"

\* The results a workflow record's own run has stored.
ProducedBy(w) == {m \in results : m.workflow_id = w.workflow_id}

\* C26 as claimed: the results counted in a normal snapshot are results the
\* subject's own run stored, so a subject that is in_progress or failed and
\* has stored nothing gets zero matches and hr-comparator is not shown
\* completed.
C26_OnlyOwnResultsCounted ==
    \A w \in Subject :
        Current.success =>
            /\ Current.metrics.bestFit + Current.metrics.partialFit + Current.metrics.notFit
                  <= Cardinality(ProducedBy(w))
            /\ (w.status \in {"in_progress", "failed"} /\ ProducedBy(w) = {}) =>
                  /\ Current.metrics.topMatches = 0
                  /\ Current.agents[3].status # "completed"

\* C27 as claimed: once the handler has written completed to its record no
\* later step of the run changes that, so no record is failed and has
\* progress 3 of 3 or a completed_at.
C27_CompletedIsTerminal ==
    /\ \A r \in Runs : run[r].pc \in {"audit", "returned", "raised"} =>
          \A w \in RecordsOf(r) :
              w.completed_at # -1 => w.status = "completed" /\ w.agents = CompletedAgents
    /\ \A w \in workflows :
          w.status = "failed" =>
              /\ w.progress.completed_agents < w.progress.total_agents
              /\ w.completed_at = -1

\* C28 as claimed: once the loop over the results has ended, every resume
\* for which a result was stored for the JD, before the run or by it, still
\* has one, whichever store calls of its items raised.
C28_FailedItemKeepsPrior ==
    run[1].pc \in {"finalize", "audit", "returned", "raised"} =>
        \A x \in ResumeIds :
            inserts[x].last_success # -2 => ResultsOfPair(results, x, "JD-1") # {}

\* C29 as claimed: every record has processed_resumes <= total_resumes, and
\* every result stored by a run is of a resume of that run's resume_ids
\* (checked for the runs whose ids are all of stored resumes), whatever list
\* of results the scorer sent back.
C29_ResultsWithinRequest ==
    /\ \A w \in workflows : w.processed_resumes <= w.total_resumes
    /\ \A m \in results : \A w \in WorkflowsById(workflows, m.workflow_id) :
          w.unknown_ids = 0 => \E i \in 1..Len(w.resume_ids) : w.resume_ids[i] = m.resume_id

====
